---- MODULE Spec2Model ----
(***************************************************************************)
(* Model of the Etsy shop image downloader (src/download_images.js).       *)
(*                                                                         *)
(* Strings are sequences of one-character strings, so that includes(),     *)
(* replace() with a regular expression and split() are computed character  *)
(* by character as the JavaScript does.                                    *)
(*                                                                         *)
(*   Spec     one run of main(): read, ensure directory, loop, summary     *)
(*   SpecUrl  formatImageUrl / getFilenameFromUrl applied to bounded URLs  *)
(***************************************************************************)
EXTENDS Integers, Sequences, FiniteSets

VARIABLES
    file,           \* how the input file reads: "unreadable", "malformed", "ok"
    export,         \* the parsed document: [hasReviews, Reviews]
    dirExists,      \* fs.existsSync(outputFolder)
    dirCreatable,   \* whether fs.mkdirSync(outputFolder) would succeed
    dirCreated,     \* this run created the output directory
    pc,             \* position of the run
    i,              \* loop index of downloadProductImages (0-based)
    totalReviews,
    visited,        \* own keys of the visited object
    downloadCount,
    skipCount,
    errorCount,
    inflight,       \* indexes of reviews whose download has started, not settled
    files,          \* filenames written to the output folder
    summary,        \* <<>> or the numbers of the summary <<total, dl, skip, err>>
    faultAt,        \* where an exception escaped to main().catch: "none", ...
    exitStatus,     \* NoExit, 0 or 1
    log,            \* history: what the loop did, in order
    upc,            \* position of the URL pipeline (SpecUrl)
    url,            \* the URL the pipeline works on, by components
    formatted,      \* formatImageUrl(url)
    altOrder,       \* another order of the three family checks
    altFormatted,   \* the chain evaluated in that order
    filename        \* getFilenameFromUrl(formatted)

batchVars == <<file, export, dirExists, dirCreatable, dirCreated, pc, i,
               totalReviews, visited, downloadCount, skipCount, errorCount,
               inflight, files, summary, faultAt, exitStatus, log>>
urlVars == <<upc, url, formatted, altOrder, altFormatted, filename>>
vars == <<batchVars, urlVars>>

(***************************************************************************)
(* Bounds                                                                  *)
(***************************************************************************)
MaxReviews == 3     \* length of the exhaustively enumerated exports
MaxDirs == 2        \* directory segments of an enumerated URL

\* exitStatus while the process is still running
NoExit == 0 - 1

(***************************************************************************)
(* Character strings                                                       *)
(***************************************************************************)
Digits == {"0", "1", "2", "3", "4", "5", "6", "7", "8", "9"}

Min(S) == CHOOSE x \in S : \A y \in S : x <= y
Max(S) == CHOOSE x \in S : \A y \in S : x >= y

\* String.prototype.includes
Includes(s, sub) ==
    \E k \in 0..(Len(s) - Len(sub)) : SubSeq(s, k + 1, k + Len(sub)) = sub

\* the length of the run of [0-9] characters of s starting at position p
RECURSIVE DigitRun(_, _)
DigitRun(s, p) ==
    IF p <= Len(s) /\ s[p] \in Digits THEN 1 + DigitRun(s, p + 1) ELSE 0

\* the length of the match of /<tok>[0-9]+x[0-9]+/ anchored at p, 0 if none
MatchLen(s, p, tok) ==
    IF p + Len(tok) - 1 > Len(s) \/ SubSeq(s, p, p + Len(tok) - 1) # tok
    THEN 0
    ELSE LET a == p + Len(tok)
             w == DigitRun(s, a)
             b == a + w + 1
             h == DigitRun(s, b)
         IN IF w >= 1 /\ a + w <= Len(s) /\ s[a + w] = "x" /\ h >= 1
            THEN Len(tok) + w + 1 + h
            ELSE 0

\* String.prototype.replace(/<tok>[0-9]+x[0-9]+/, repl): the leftmost match only
ReplaceDims(s, tok, repl) ==
    LET P == {p \in 1..Len(s) : MatchLen(s, p, tok) > 0}
    IN IF P = {} THEN s
       ELSE LET p == Min(P)
                n == MatchLen(s, p, tok)
            IN SubSeq(s, 1, p - 1) \o repl \o SubSeq(s, p + n, Len(s))

(***************************************************************************)
(* The three image families of formatImageUrl                              *)
(***************************************************************************)
Families == {"iap", "il", "iusa"}

Name(fam) ==
    CASE fam = "iap" -> <<"i", "a", "p">>
      [] fam = "il" -> <<"i", "l">>
      [] fam = "iusa" -> <<"i", "u", "s", "a">>
      [] fam = "img" -> <<"i", "m", "g">>
      [] fam = "r" -> <<"r">>

CanonDims(fam) ==
    CASE fam = "iap" -> <<"6", "4", "0", "x", "6", "4", "0">>
      [] fam = "il" -> <<"5", "7", "0", "x", "4", "5", "6">>
      [] fam = "iusa" -> <<"4", "0", "0", "x", "4", "0", "0">>

Marker(fam) == <<"/">> \o Name(fam) \o <<"/">>
Token(fam) == Name(fam) \o <<"_">>
Canonical(fam) == Token(fam) \o CanonDims(fam)

\* the if / else-if chain with its checks taken in the given order
RECURSIVE formatImageUrlOrd(_, _)
formatImageUrlOrd(imgUrl, order) ==
    IF order = <<>> THEN imgUrl
    ELSE IF Includes(imgUrl, Marker(Head(order)))
         THEN ReplaceDims(imgUrl, Token(Head(order)), Canonical(Head(order)))
         ELSE formatImageUrlOrd(imgUrl, Tail(order))

\* the chain with the second branch replacing the first family's pattern
formatImageUrlCopiedPattern(imgUrl) ==
    IF Includes(imgUrl, Marker("iap"))
    THEN ReplaceDims(imgUrl, Token("iap"), Canonical("iap"))
    ELSE IF Includes(imgUrl, Marker("il"))
    THEN ReplaceDims(imgUrl, Token("iap"), Canonical("iap"))
    ELSE IF Includes(imgUrl, Marker("iusa"))
    THEN ReplaceDims(imgUrl, Token("iusa"), Canonical("iusa"))
    ELSE imgUrl

formatImageUrl(imgUrl) ==
    IF Includes(imgUrl, Marker("iap"))
    THEN ReplaceDims(imgUrl, Token("iap"), Canonical("iap"))
    ELSE IF Includes(imgUrl, Marker("il"))
    THEN ReplaceDims(imgUrl, Token("il"), Canonical("il"))
    ELSE IF Includes(imgUrl, Marker("iusa"))
    THEN ReplaceDims(imgUrl, Token("iusa"), Canonical("iusa"))
    ELSE imgUrl

\* imgUrl.split('/') then the last part, then .split('?')[0]
getFilenameFromUrl(imgUrl) ==
    LET S == {p \in 1..Len(imgUrl) : imgUrl[p] = "/"}
        lastPart == IF S = {} THEN imgUrl
                    ELSE SubSeq(imgUrl, Max(S) + 1, Len(imgUrl))
        Q == {p \in 1..Len(lastPart) : lastPart[p] = "?"}
    IN IF Q = {} THEN lastPart ELSE SubSeq(lastPart, 1, Min(Q) - 1)

(***************************************************************************)
(* URLs by components, and the strings they spell                          *)
(***************************************************************************)
Host == <<"h", "t", "t", "p", "s", ":", "/", "/", "e", ".", "c", "o", "m">>

DirNames == {"iap", "il", "iusa", "r"}
FilePrefixes == {"iap", "il", "iusa", "img"}
DimsPool == {<<"7", "5", "x", "7", "5">>, <<"1", "x", "2">>, <<"7", "5", "x">>, <<>>}
RestPool == {<<".", "1", ".", "j", "p", "g">>, <<".", "2", ".", "j", "p", "g">>}
QueryPool == {<<>>, <<"?", "v", "=", "0">>}

RECURSIVE DirsString(_)
DirsString(dirs) ==
    IF dirs = <<>> THEN <<>>
    ELSE <<"/">> \o Name(Head(dirs)) \o DirsString(Tail(dirs))

FileString(u) == Token(u.fam) \o u.dims \o u.rest

UrlString(u) == Host \o DirsString(u.dirs) \o <<"/">> \o FileString(u) \o u.query

UrlInputs ==
    [dirs : UNION {[1..n -> DirNames] : n \in 0..MaxDirs},
     fam : FilePrefixes, dims : DimsPool, rest : RestPool, query : QueryPool]

NoUrl == [dirs |-> <<>>, fam |-> "img", dims |-> <<>>, rest |-> <<>>, query |-> <<>>]

Orders == {<<"iap", "il", "iusa">>, <<"iap", "iusa", "il">>, <<"il", "iap", "iusa">>,
           <<"il", "iusa", "iap">>, <<"iusa", "iap", "il">>, <<"iusa", "il", "iap">>}

(***************************************************************************)
(* Reviews and exports                                                     *)
(***************************************************************************)
\* a review as the loop sees it: whether review[objectKey] is there, and the
\* string review[objectKey][imageKey] (<<>> when absent or the empty string)
NoObject == [obj |-> FALSE, img |-> <<>>]
NoImage == [obj |-> TRUE, img |-> <<>>]
WithImage(s) == [obj |-> TRUE, img |-> s]

Thumb(fam, dims, rest, query) ==
    WithImage(UrlString([dirs |-> <<fam>>, fam |-> fam, dims |-> dims,
                         rest |-> rest, query |-> query]))

ConstructorUrl == Host \o <<"/", "c", "o", "n", "s", "t", "r", "u", "c", "t", "o", "r">>

ReviewPool ==
    {NoObject, NoImage,
     Thumb("iap", <<"7", "5", "x", "7", "5">>, <<".", "1", ".", "j", "p", "g">>, <<>>),
     Thumb("iap", <<"1", "x", "2">>, <<".", "1", ".", "j", "p", "g">>, <<"?", "v", "=", "0">>),
     Thumb("il", <<"7", "5", "x", "7", "5">>, <<".", "2", ".", "j", "p", "g">>, <<>>),
     WithImage(ConstructorUrl)}

DigitChar(k) == <<"0", "1", "2", "3", "4", "5", "6", "7", "8", "9">>[k + 1]

\* the k-th thumbnail of the ten-review exports
T(k) == Thumb("iap", <<"7", "5", "x", "7", "5">>,
              <<".", DigitChar(k), ".", "j", "p", "g">>, <<>>)
T6b == Thumb("iap", <<"1", "x", "2">>, <<".", "6", ".", "j", "p", "g">>,
             <<"?", "v", "=", "0">>)

TenReviewExports ==
    {<<T(6), T(6), NoObject, NoObject, NoImage, T(1), T(2), T(3), T(4), T(5)>>,
     <<T(1), NoObject, T(6), T(2), T(3), NoImage, T6b, T(4), NoObject, T(5)>>,
     <<WithImage(ConstructorUrl), T(1), T(2), NoObject, NoObject,
       WithImage(ConstructorUrl), T(3), T(4), T(5), NoImage>>}

Exports ==
    UNION {[1..n -> ReviewPool] : n \in 0..MaxReviews} \cup TenReviewExports

(***************************************************************************)
(* Helpers of downloadProductImages                                        *)
(***************************************************************************)
\* !review[objectKey] || !review[objectKey][imageKey] is false
HasImage(review) == review.obj /\ review.img # <<>>

\* names every object inherits from Object.prototype: visited = {} answers a
\* truthy value for them before anything was stored
ObjectPrototypeKeys ==
    {<<"c", "o", "n", "s", "t", "r", "u", "c", "t", "o", "r">>,
     <<"t", "o", "S", "t", "r", "i", "n", "g">>,
     <<"v", "a", "l", "u", "e", "O", "f">>,
     <<"h", "a", "s", "O", "w", "n", "P", "r", "o", "p", "e", "r", "t", "y">>,
     <<"_", "_", "p", "r", "o", "t", "o", "_", "_">>}

\* the lookup keyed by something never stored: it finds nothing
IsVisitedByPath(v, fn) == FALSE

\* if (visited[filename])
IsVisited(v, fn) == fn \in v \/ fn \in ObjectPrototypeKeys

\* how one download can end: the request and the write succeed; axios.get
\* rejects on a transport error; axios.get rejects on a non-2xx status;
\* fs.writeFileSync throws
Outcomes == {"ok", "transport", "status", "write"}

\* downloadImage with the write outside its try: a write failure is thrown
downloadImageWriteOutsideTry(outcome) ==
    IF outcome = "ok" THEN "true" ELSE IF outcome = "write" THEN "throw" ELSE "false"

\* what downloadImage hands back to its caller for each outcome
downloadImage(outcome) == IF outcome = "ok" THEN "true" ELSE "false"

\* process.exit(1) of main().catch
UnhandledExitCode == 1

Review(k) == export.Reviews[k + 1]
FilenameOf(review) == getFilenameFromUrl(formatImageUrl(review.img))

Event(ev, idx, fn, outcome) == [ev |-> ev, idx |-> idx, fn |-> fn, outcome |-> outcome]

(***************************************************************************)
(* Init                                                                    *)
(***************************************************************************)
UrlIdle ==
    /\ upc = "idle"
    /\ url = NoUrl
    /\ formatted = <<>>
    /\ altOrder = <<>>
    /\ altFormatted = <<>>
    /\ filename = <<>>

BatchStart ==
    /\ dirCreated = FALSE
    /\ i = 0
    /\ totalReviews = 0
    /\ visited = {}
    /\ downloadCount = 0
    /\ skipCount = 0
    /\ errorCount = 0
    /\ inflight = {}
    /\ files = {}
    /\ summary = <<>>
    /\ faultAt = "none"
    /\ exitStatus = NoExit
    /\ log = <<>>

Init ==
    /\ file \in {"unreadable", "malformed", "ok"}
    /\ \/ /\ file = "ok"
          /\ export \in [hasReviews : {TRUE}, Reviews : Exports]
                        \cup {[hasReviews |-> FALSE, Reviews |-> <<>>]}
       \/ /\ file # "ok"
          /\ export = [hasReviews |-> FALSE, Reviews |-> <<>>]
    /\ dirExists \in BOOLEAN
    /\ dirCreatable \in IF dirExists THEN {TRUE} ELSE BOOLEAN
    /\ pc = "main"
    /\ BatchStart
    /\ UrlIdle

(***************************************************************************)
(* main and downloadProductImages                                          *)
(***************************************************************************)
Main ==
    /\ pc = "main"
    /\ pc' = "read"
    /\ UNCHANGED <<file, export, dirExists, dirCreatable, dirCreated, i,
                   totalReviews, visited, downloadCount, skipCount, errorCount,
                   inflight, files, summary, faultAt, exitStatus, log, urlVars>>

\* the read failure logged without the return
ReadFailNoReturn ==
    /\ pc = "read"
    /\ file # "ok"
    /\ pc' = "ensureDir"
    /\ UNCHANGED <<file, export, dirExists, dirCreatable, dirCreated, i,
                   totalReviews, visited, downloadCount, skipCount, errorCount,
                   inflight, files, summary, faultAt, exitStatus, log, urlVars>>

\* the catch of the read/parse try: log and return
ReadFail ==
    /\ pc = "read"
    /\ file # "ok"
    /\ pc' = "returned"
    /\ UNCHANGED <<file, export, dirExists, dirCreatable, dirCreated, i,
                   totalReviews, visited, downloadCount, skipCount, errorCount,
                   inflight, files, summary, faultAt, exitStatus, log, urlVars>>

\* the read followed at once by the length computation
ReadOkDerefFirst ==
    /\ pc = "read"
    /\ file = "ok"
    /\ pc' = "deref"
    /\ UNCHANGED <<file, export, dirExists, dirCreatable, dirCreated, i,
                   totalReviews, visited, downloadCount, skipCount, errorCount,
                   inflight, files, summary, faultAt, exitStatus, log, urlVars>>

ReadOk ==
    /\ pc = "read"
    /\ file = "ok"
    /\ pc' = "ensureDir"
    /\ UNCHANGED <<file, export, dirExists, dirCreatable, dirCreated, i,
                   totalReviews, visited, downloadCount, skipCount, errorCount,
                   inflight, files, summary, faultAt, exitStatus, log, urlVars>>

\* ensureDirectoryExists(outputFolder); mkdirSync throws when it cannot create
EnsureDir ==
    /\ pc = "ensureDir"
    /\ IF dirExists
       THEN /\ pc' = "deref"
            /\ UNCHANGED <<dirExists, dirCreated, faultAt>>
       ELSE IF dirCreatable
       THEN /\ dirExists' = TRUE
            /\ dirCreated' = TRUE
            /\ pc' = "deref"
            /\ UNCHANGED faultAt
       ELSE /\ faultAt' = "mkdir"
            /\ pc' = "caught"
            /\ UNCHANGED <<dirExists, dirCreated>>
    /\ UNCHANGED <<file, export, dirCreatable, i, totalReviews, visited,
                   downloadCount, skipCount, errorCount, inflight, files,
                   summary, exitStatus, log, urlVars>>

\* const visited = {}; const totalReviews = data['Reviews'].length; counters = 0
\* (a TypeError when data has no 'Reviews')
Deref ==
    /\ pc = "deref"
    /\ IF export.hasReviews
       THEN /\ totalReviews' = Len(export.Reviews)
            /\ visited' = {}
            /\ downloadCount' = 0
            /\ skipCount' = 0
            /\ errorCount' = 0
            /\ i' = 0
            /\ pc' = "loop"
            /\ UNCHANGED faultAt
       ELSE /\ faultAt' = "deref"
            /\ pc' = "caught"
            /\ UNCHANGED <<totalReviews, visited, downloadCount, skipCount,
                           errorCount, i>>
    /\ UNCHANGED <<file, export, dirExists, dirCreatable, dirCreated, inflight,
                   files, summary, exitStatus, log, urlVars>>

\* the required object or image does not exist: skipCount++; continue
SkipMissing ==
    /\ pc = "loop"
    /\ i < totalReviews
    /\ ~HasImage(Review(i))
    /\ skipCount' = skipCount + 1
    /\ i' = i + 1
    /\ log' = Append(log, Event("skip", i, <<>>, "-"))
    /\ UNCHANGED <<file, export, dirExists, dirCreatable, dirCreated, pc,
                   totalReviews, visited, downloadCount, errorCount, inflight,
                   files, summary, faultAt, exitStatus, urlVars>>

\* the duplicate skipped without being counted
SkipVisitedUncounted ==
    /\ pc = "loop"
    /\ i < totalReviews
    /\ HasImage(Review(i))
    /\ IsVisited(visited, FilenameOf(Review(i)))
    /\ i' = i + 1
    /\ log' = Append(log, Event("skip", i, FilenameOf(Review(i)), "-"))
    /\ UNCHANGED <<file, export, dirExists, dirCreatable, dirCreated, pc,
                   totalReviews, visited, downloadCount, skipCount, errorCount,
                   inflight, files, summary, faultAt, exitStatus, urlVars>>

\* already downloaded: skipCount++; continue
SkipVisited ==
    /\ pc = "loop"
    /\ i < totalReviews
    /\ HasImage(Review(i))
    /\ IsVisited(visited, FilenameOf(Review(i)))
    /\ skipCount' = skipCount + 1
    /\ i' = i + 1
    /\ log' = Append(log, Event("skip", i, FilenameOf(Review(i)), "-"))
    /\ UNCHANGED <<file, export, dirExists, dirCreatable, dirCreated, pc,
                   totalReviews, visited, downloadCount, errorCount, inflight,
                   files, summary, faultAt, exitStatus, urlVars>>

\* the download started without await: the loop goes on at once
StartDownloadNoAwait ==
    /\ pc = "loop"
    /\ i < totalReviews
    /\ HasImage(Review(i))
    /\ ~IsVisited(visited, FilenameOf(Review(i)))
    /\ visited' = visited \cup {FilenameOf(Review(i))}
    /\ inflight' = inflight \cup {i}
    /\ log' = Append(log, Event("start", i, FilenameOf(Review(i)), "-"))
    /\ i' = i + 1
    /\ UNCHANGED <<file, export, dirExists, dirCreatable, dirCreated, pc,
                   totalReviews, downloadCount, skipCount, errorCount, files,
                   summary, faultAt, exitStatus, urlVars>>

\* visited[filename] = true; the call of downloadImage up to its await
StartDownload ==
    /\ pc = "loop"
    /\ i < totalReviews
    /\ HasImage(Review(i))
    /\ ~IsVisited(visited, FilenameOf(Review(i)))
    /\ visited' = visited \cup {FilenameOf(Review(i))}
    /\ inflight' = inflight \cup {i}
    /\ log' = Append(log, Event("start", i, FilenameOf(Review(i)), "-"))
    /\ pc' = "await"
    /\ UNCHANGED <<file, export, dirExists, dirCreatable, dirCreated, i,
                   totalReviews, downloadCount, skipCount, errorCount, files,
                   summary, faultAt, exitStatus, urlVars>>

\* the download settles and the loop resumes after its await
FinishDownload ==
    /\ pc = "await"
    /\ \E j \in inflight, outcome \in Outcomes :
          LET fn == FilenameOf(Review(j))
              r == downloadImage(outcome)
          IN /\ inflight' = inflight \ {j}
             /\ files' = IF outcome = "ok" THEN files \cup {fn} ELSE files
             /\ log' = Append(log, Event("end", j, fn, outcome))
             /\ IF r = "throw"
                THEN /\ faultAt' = "download"
                     /\ pc' = "caught"
                     /\ UNCHANGED <<downloadCount, errorCount, i>>
                ELSE /\ downloadCount' = IF r = "true" THEN downloadCount + 1
                                         ELSE downloadCount
                     /\ errorCount' = IF r = "true" THEN errorCount
                                      ELSE errorCount + 1
                     /\ i' = i + 1
                     /\ pc' = "loop"
                     /\ UNCHANGED faultAt
    /\ UNCHANGED <<file, export, dirExists, dirCreatable, dirCreated,
                   totalReviews, visited, skipCount, summary, exitStatus, urlVars>>

\* the loop is over: the four summary lines, then return to main
Summary ==
    /\ pc = "loop"
    /\ ~(i < totalReviews)
    /\ summary' = <<totalReviews, downloadCount, skipCount, errorCount>>
    /\ pc' = "returned"
    /\ UNCHANGED <<file, export, dirExists, dirCreatable, dirCreated, i,
                   totalReviews, visited, downloadCount, skipCount, errorCount,
                   inflight, files, faultAt, exitStatus, log, urlVars>>

\* main logs its last line and resolves: the process ends with status 0
MainReturn ==
    /\ pc = "returned"
    /\ exitStatus' = 0
    /\ pc' = "exited"
    /\ UNCHANGED <<file, export, dirExists, dirCreatable, dirCreated, i,
                   totalReviews, visited, downloadCount, skipCount, errorCount,
                   inflight, files, summary, faultAt, log, urlVars>>

\* the handler that logs and lets the process end normally
CatchHandlerLogsOnly ==
    /\ pc = "caught"
    /\ exitStatus' = 0
    /\ pc' = "exited"
    /\ UNCHANGED <<file, export, dirExists, dirCreatable, dirCreated, i,
                   totalReviews, visited, downloadCount, skipCount, errorCount,
                   inflight, files, summary, faultAt, log, urlVars>>

\* main().catch: log and process.exit(1)
CatchHandler ==
    /\ pc = "caught"
    /\ exitStatus' = UnhandledExitCode
    /\ pc' = "exited"
    /\ UNCHANGED <<file, export, dirExists, dirCreatable, dirCreated, i,
                   totalReviews, visited, downloadCount, skipCount, errorCount,
                   inflight, files, summary, faultAt, log, urlVars>>

Next ==
    \/ Main
    \/ ReadFail
    \/ ReadOk
    \/ EnsureDir
    \/ Deref
    \/ SkipMissing
    \/ SkipVisited
    \/ StartDownload
    \/ FinishDownload
    \/ Summary
    \/ MainReturn
    \/ CatchHandler

Spec == Init /\ [][Next]_vars

(***************************************************************************)
(* The URL pipeline on its own                                             *)
(***************************************************************************)
BatchIdle ==
    /\ file = "ok"
    /\ export = [hasReviews |-> FALSE, Reviews |-> <<>>]
    /\ dirExists = TRUE
    /\ dirCreatable = TRUE
    /\ pc = "idle"
    /\ BatchStart

InitUrl ==
    /\ BatchIdle
    /\ upc = "input"
    /\ url \in UrlInputs
    /\ formatted = <<>>
    /\ altOrder = <<>>
    /\ altFormatted = <<>>
    /\ filename = <<>>

Format ==
    /\ upc = "input"
    /\ formatted' = formatImageUrl(UrlString(url))
    /\ upc' = "formatted"
    /\ UNCHANGED <<url, altOrder, altFormatted, filename, batchVars>>

Extract ==
    /\ upc = "formatted"
    /\ filename' = getFilenameFromUrl(formatted)
    /\ upc' = "extracted"
    /\ UNCHANGED <<url, formatted, altOrder, altFormatted, batchVars>>

\* the same URL through the chain with its checks in another order
Reorder ==
    /\ upc = "extracted"
    /\ \E order \in Orders :
          /\ altOrder' = order
          /\ altFormatted' = formatImageUrlOrd(UrlString(url), order)
    /\ upc' = "reordered"
    /\ UNCHANGED <<url, formatted, filename, batchVars>>

NextUrl == Format \/ Extract \/ Reorder

SpecUrl == InitUrl /\ [][NextUrl]_vars

(***************************************************************************)
(* What the history says                                                   *)
(***************************************************************************)
Positions(ev) == {k \in 1..Len(log) : log[k].ev = ev}
Handled == {log[k].idx : k \in Positions("skip") \cup Positions("start")}
AttemptsOf(fn) == {log[k].idx : k \in {p \in Positions("start") : log[p].fn = fn}}
SkippedAt == {log[k].idx : k \in Positions("skip")}
EndedOk == {log[k].idx : k \in {p \in Positions("end") : log[p].outcome = "ok"}}
EndedFailed == {log[k].idx : k \in {p \in Positions("end") : log[p].outcome # "ok"}}

\* the indexes (0-based) of the reviews that carry the selected image field
Carrying == {k \in 0..(Len(export.Reviews) - 1) : HasImage(Review(k))}
\* the filename the loop derived for review k when it handled it
DerivedAt(k) == log[CHOOSE p \in 1..Len(log) : log[p].idx = k /\ log[p].ev # "end"].fn
SameFilename(k) == {m \in Carrying \cap Handled : DerivedAt(m) = DerivedAt(k)}

(***************************************************************************)
(* C1: every distinct filename derived from the reviews that carry the     *)
(* image field gets exactly one download attempt, at the first review that *)
(* yields it; every later review yielding it is skipped.                   *)
(***************************************************************************)
C1_OneAttemptPerFilename ==
    \A j \in Handled \cap Carrying :
        /\ AttemptsOf(DerivedAt(j)) = {Min(SameFilename(j))}
        /\ j # Min(SameFilename(j)) => j \in SkippedAt

(***************************************************************************)
(* C2: at the start of iteration i the three counters sum to i, and the    *)
(* summary's downloaded + skipped + errored equals the review count.       *)
(***************************************************************************)
C2_CountersSum ==
    /\ pc \in {"loop", "await"} => downloadCount + skipCount + errorCount = i
    /\ summary # <<>> =>
          /\ summary[1] = Len(export.Reviews)
          /\ summary[2] + summary[3] + summary[4] = summary[1]

C2_Witness ==
    /\ summary # <<>>
    /\ summary[2] > 0
    /\ summary[3] > 0
    /\ summary[4] > 0

(***************************************************************************)
(* C3: a failed download never escapes downloadImage: the review is        *)
(* counted under errored, the loop goes on with the next review, and the   *)
(* run reaches its summary with every review counted.                      *)
(***************************************************************************)
C3_Counted ==
    /\ faultAt # "download"
    /\ inflight = {} =>
          /\ errorCount = Cardinality(EndedFailed)
          /\ downloadCount = Cardinality(EndedOk)
    /\ (log # <<>> /\ log[Len(log)].ev = "end") =>
          /\ pc \in {"loop", "returned", "exited"}
          /\ pc = "exited" => summary # <<>>
          /\ i = log[Len(log)].idx + 1
    /\ summary # <<>> =>
          /\ Handled = 0..(Len(export.Reviews) - 1)
          /\ summary = <<Len(export.Reviews), Cardinality(EndedOk),
                         Cardinality(SkippedAt), Cardinality(EndedFailed)>>

C3_FailureContained ==
    /\ C3_Counted
    /\ EndedFailed # {} =>
          /\ pc \in {"loop", "await", "returned", "exited"}
          /\ pc = "await" => inflight # {}
          /\ pc = "loop" => i <= totalReviews
          /\ pc \in {"returned", "exited"} => summary # <<>>

C3_Witness ==
    /\ summary # <<>>
    /\ \E a \in EndedFailed, b \in EndedOk, c \in SkippedAt : a < b /\ a < c

(***************************************************************************)
(* C4: reviews are handled in increasing index order, one download in      *)
(* flight at a time: nothing is started or skipped for review j before     *)
(* every review before j is finished.                                      *)
(***************************************************************************)
C4_Sequential ==
    /\ Cardinality(inflight) <= 1
    /\ inflight # {} => inflight = {i} /\ pc = "await"
    /\ \A k \in Positions("start") :
          \/ k = Len(log) /\ inflight = {log[k].idx}
          \/ k < Len(log) /\ log[k + 1].ev = "end" /\ log[k + 1].idx = log[k].idx
    /\ \A k \in Positions("skip") \cup Positions("start") :
          log[k].idx = Cardinality({m \in Positions("skip") \cup Positions("start") : m < k})

C4_Witness ==
    /\ inflight = {2}
    /\ 0 \in EndedFailed
    /\ 1 \in SkippedAt

(***************************************************************************)
(* C5: the process exits with status 1 only when an exception reached the  *)
(* top-level catch, as it does when the export lacks 'Reviews'; every      *)
(* other run, failed downloads included, ends with status 0.               *)
(***************************************************************************)
C5_ExitStatus ==
    /\ pc # "exited" => exitStatus = NoExit
    /\ pc = "exited" => exitStatus = (IF faultAt = "none" THEN 0 ELSE 1)
    /\ (pc = "exited" /\ file = "ok" /\ ~export.hasReviews) => exitStatus = 1
    /\ (pc = "exited" /\ EndedFailed # {}) => exitStatus = 0

C5_Witness ==
    /\ pc = "exited"
    /\ faultAt = "deref"
    /\ exitStatus = 1

(***************************************************************************)
(* C6: when reading or parsing the input fails, the invocation returns     *)
(* early: no output directory is created, nothing is downloaded or         *)
(* written, no summary is emitted, and no exception reaches the caller.    *)
(***************************************************************************)
C6_ReadFailureAborts ==
    file # "ok" =>
        /\ pc \in {"main", "read", "returned", "exited"}
        /\ ~dirCreated
        /\ log = <<>>
        /\ inflight = {}
        /\ files = {}
        /\ summary = <<>>
        /\ faultAt = "none"
        /\ pc = "exited" => exitStatus = 0

C6_Witness ==
    /\ file = "malformed"
    /\ pc = "returned"
    /\ ~dirExists
    /\ dirCreatable

(***************************************************************************)
(* C7: ten reviews, three without the field, two sharing one filename,     *)
(* five unique ones that download successfully.                            *)
(***************************************************************************)
IsScenarioC ==
    /\ export.hasReviews
    /\ Len(export.Reviews) = 10
    /\ Handled = 0..9
    /\ Cardinality(Carrying) = 7
    /\ Cardinality({k \in Carrying : Cardinality(SameFilename(k)) = 2}) = 2
    /\ Cardinality({k \in Carrying : Cardinality(SameFilename(k)) = 1}) = 5

UniqueOnesOk == {k \in Carrying : Cardinality(SameFilename(k)) = 1} \subseteq EndedOk
SharedOneOk == \E k \in Carrying : Cardinality(SameFilename(k)) = 2 /\ k \in EndedOk

WellFormedDims(d) ==
    LET w == DigitRun(d, 1)
        h == DigitRun(d, w + 2)
    IN w >= 1 /\ w + 1 <= Len(d) /\ d[w + 1] = "x" /\ h >= 1 /\ w + 1 + h = Len(d)

Rewritten(u) == [u EXCEPT !.dims = CanonDims(u.fam)]

C8_FamilyRewrite ==
    (upc \in {"extracted", "reordered"} /\ url.fam \in Families /\ WellFormedDims(url.dims))
        => /\ formatted = UrlString(Rewritten(url))
           /\ filename = FileString(Rewritten(url))

(***************************************************************************)
(* C9: the result of formatImageUrl does not depend on the order of its    *)
(* three family checks, and a marker without a well-formed dimension token *)
(* of its family leaves the string unchanged.                              *)
(***************************************************************************)
MarkersIn(s) == {f \in Families : Includes(s, Marker(f))}
HasToken(s, f) == \E p \in 1..Len(s) : MatchLen(s, p, Token(f)) > 0
FirstMarker(s) ==
    IF "iap" \in MarkersIn(s) THEN "iap" ELSE IF "il" \in MarkersIn(s) THEN "il" ELSE "iusa"

\* C9 as stated, for every URL string
C9_OrderIndependent ==
    upc = "reordered" =>
        /\ altFormatted = formatted
        /\ \A f \in MarkersIn(UrlString(url)) :
              ~HasToken(UrlString(url), f) => formatted = UrlString(url)

\* C9 amended: the first marker present, in the order iap, il, iusa, decides;
\* with at most one marker present every order gives the same result; and
\* when the deciding family has no well-formed token the string is unchanged
C9_FirstMarkerDecides ==
    upc = "reordered" =>
        /\ Cardinality(MarkersIn(UrlString(url))) <= 1 => altFormatted = formatted
        /\ (MarkersIn(UrlString(url)) # {}
              /\ ~HasToken(UrlString(url), FirstMarker(UrlString(url))))
           => formatted = UrlString(url)

C9_Witness ==
    /\ upc = "reordered"
    /\ MarkersIn(UrlString(url)) = {"il"}
    /\ altOrder = <<"iusa", "il", "iap">>
    /\ formatted # UrlString(url)
    /\ altFormatted = formatted

(***************************************************************************)
(* C10: the order of the review-collection dereference and of the          *)
(* creation of the output directory.                                       *)
(***************************************************************************)
\* C10 as stated: the dereference comes first, so a run on an export without
\* 'Reviews' faults without having created the output directory
C10_DerefBeforeDir ==
    faultAt = "deref" => ~dirCreated /\ log = <<>>

\* C10 amended: the output directory is ensured first; the run faults at the
\* dereference with the directory in place and without any download attempt
C10_DirBeforeDeref ==
    /\ pc = "deref" => dirExists
    /\ faultAt = "deref" =>
          /\ dirExists
          /\ ~export.hasReviews
          /\ log = <<>>
          /\ files = {}

C10_Witness ==
    /\ faultAt = "deref"
    /\ dirCreated
    /\ pc = "exited"

====
